---- MODULE Spec2Model ----
(***************************************************************************)
(* Vuenify: the attribute-block rebuilder of Vue single file components.   *)
(*                                                                         *)
(* A text is a sequence of one-character strings.  Offsets are 0-based as  *)
(* in the source (JavaScript string offsets): offset k is text[k + 1].     *)
(***************************************************************************)
EXTENDS Integers, Sequences, FiniteSets, TLC

VARIABLES source, settings, edits, parsed, pc, round, runs

vars == <<source, settings, edits, parsed, pc, round, runs>>

----------------------------------------------------------------------------
(* Characters and strings                                                  *)

Letters == <<"a", "b", "c", "d", "e", "f", "g", "h", "i", "j", "k", "l", "m",
             "n", "o", "p", "q", "r", "s", "t", "u", "v", "w", "x", "y", "z">>

Digits == <<"0", "1", "2", "3", "4", "5", "6", "7", "8", "9">>

\* The UTF-16 code unit of a character (JavaScript compares strings by it).
Ord(c) ==
  IF \E i \in 1..26 : Letters[i] = c
    THEN 96 + (CHOOSE i \in 1..26 : Letters[i] = c)
  ELSE IF \E i \in 1..10 : Digits[i] = c
    THEN 47 + (CHOOSE i \in 1..10 : Digits[i] = c)
  ELSE CASE c = "\t" -> 9
         [] c = "\n" -> 10
         [] c = " " -> 32
         [] c = "\"" -> 34
         [] c = "#" -> 35
         [] c = "'" -> 39
         [] c = "-" -> 45
         [] c = "." -> 46
         [] c = "/" -> 47
         [] c = ":" -> 58
         [] c = "<" -> 60
         [] c = "=" -> 61
         [] c = ">" -> 62
         [] c = "@" -> 64
         [] c = "B" -> 66
         [] c = "[" -> 91
         [] c = "]" -> 93

\* JavaScript's \s restricted to the characters of the model.
Spaces == {" ", "\n", "\t"}
IsSpace(c) == c \in Spaces

\* String.prototype.slice(a, b) for 0 <= a, b (b is clamped to the length).
Slice(s, a, b) ==
  LET e == IF b > Len(s) THEN Len(s) ELSE b
  IN IF a >= e THEN <<>> ELSE SubSeq(s, a + 1, e)

\* String.prototype.slice(a)
SliceFrom(s, a) == Slice(s, a, Len(s))

\* String.prototype.includes for a single character
Includes(s, c) == \E i \in 1..Len(s) : s[i] = c

\* String.prototype.indexOf for a single character (0-based, -1 if absent)
IndexOf(s, c) ==
  IF Includes(s, c)
    THEN (CHOOSE i \in 1..Len(s) : s[i] = c /\ \A j \in 1..(i - 1) : s[j] # c) - 1
    ELSE -1

\* s.startsWith(t, at): t occurs in s at offset `at`
StartsWithAt(s, t, at) ==
  /\ at + Len(t) <= Len(s)
  /\ \A k \in 1..Len(t) : s[at + k] = t[k]

\* String.prototype.indexOf for a substring (0-based, -1 if absent)
IndexOfSub(s, t) ==
  IF \E a \in 0..Len(s) : StartsWithAt(s, t, a)
    THEN CHOOSE a \in 0..Len(s) :
           StartsWithAt(s, t, a) /\ \A b \in 0..(a - 1) : ~StartsWithAt(s, t, b)
    ELSE -1

\* String.prototype.lastIndexOf for a substring
LastIndexOfSub(s, t) ==
  IF \E a \in 0..Len(s) : StartsWithAt(s, t, a)
    THEN CHOOSE a \in 0..Len(s) :
           StartsWithAt(s, t, a) /\ \A b \in (a + 1)..Len(s) : ~StartsWithAt(s, t, b)
    ELSE -1

\* String.prototype.trim
RECURSIVE TrimStart(_)
TrimStart(s) == IF s # <<>> /\ IsSpace(s[1]) THEN TrimStart(Tail(s)) ELSE s

RECURSIVE TrimEnd(_)
TrimEnd(s) ==
  IF s # <<>> /\ IsSpace(s[Len(s)]) THEN TrimEnd(SubSeq(s, 1, Len(s) - 1)) ELSE s

Trim(s) == TrimEnd(TrimStart(s))

\* a < b for JavaScript strings: lexicographic by code unit
RECURSIVE StrLess(_, _)
StrLess(a, b) ==
  IF b = <<>> THEN FALSE
  ELSE IF a = <<>> THEN TRUE
  ELSE IF a[1] = b[1] THEN StrLess(Tail(a), Tail(b))
  ELSE Ord(a[1]) < Ord(b[1])

\* Array.prototype.join
RECURSIVE Join(_, _)
Join(parts, sep) ==
  IF parts = <<>> THEN <<>>
  ELSE IF Len(parts) = 1 THEN parts[1]
  ELSE parts[1] \o sep \o Join(Tail(parts), sep)

----------------------------------------------------------------------------
(* The template parser the transformer calls (parseSfc, parseDom): the     *)
(* part of its behaviour the transformer reads.  A result with ok = FALSE  *)
(* stands for a raised compiler error.                                     *)

\* Least offset j >= i at which the text ends or has a character of stops.
ScanTo(s, i, stops) ==
  CHOOSE j \in i..Len(s) :
    /\ j = Len(s) \/ s[j + 1] \in stops
    /\ \A k \in i..(j - 1) : s[k + 1] \notin stops

\* Least offset j >= i at which the text ends or has no whitespace.
SkipSpaces(s, i) ==
  CHOOSE j \in i..Len(s) :
    /\ j = Len(s) \/ ~IsSpace(s[j + 1])
    /\ \A k \in i..(j - 1) : IsSpace(s[k + 1])

IsQuote(c) == c = "\"" \/ c = "'"
AttrNameStops == Spaces \cup {"=", ">", "/"}
UnquotedStops == Spaces \cup {">"}
DirNameStops == {":", "."}
TagNameStops == Spaces \cup {">", "/"}

\* "a.b.c" -> << "a", "b", "c" >>
RECURSIVE SplitDots(_)
SplitDots(s) ==
  LET d == ScanTo(s, 0, {"."})
  IN IF d = Len(s) THEN <<s>> ELSE <<Slice(s, 0, d)>> \o SplitDots(SliceFrom(s, d + 1))

\* The argument and the modifiers of a directive, from the part of its raw
\* name that follows the directive name ("" or ":arg.mod" or ".mod").
DirArgAndModifiers(rest, shorthand) ==
  LET afterColon == IF shorthand THEN rest
                    ELSE IF rest # <<>> /\ rest[1] = ":" THEN Tail(rest) ELSE <<>>
      hasArgPart == shorthand \/ (rest # <<>> /\ rest[1] = ":")
      dynamic == afterColon # <<>> /\ afterColon[1] = "["
      close == IndexOf(afterColon, "]")
      argEnd == IF dynamic THEN close + 1 ELSE ScanTo(afterColon, 0, {"."})
      arg == Slice(afterColon, 0, argEnd)
      tail == IF hasArgPart THEN SliceFrom(afterColon, argEnd) ELSE rest
      mods == IF tail = <<>> THEN <<>> ELSE SplitDots(Tail(tail))
  IN [ok |-> /\ (hasArgPart => arg # <<>>)
             /\ (dynamic => close # -1)
             /\ (tail # <<>> => tail[1] = ".")
             /\ \A i \in 1..Len(mods) : mods[i] # <<>>,
      hasArg |-> hasArgPart, arg |-> arg, modifiers |-> mods]

\* AttributeNode | DirectiveNode of one attribute of an open tag.
\* content is value.content of an attribute and exp.loc.source of a directive.
PropNode(raw, src, from, to, hasValue, content) ==
  LET isLong == Len(raw) > 2 /\ raw[1] = "v" /\ raw[2] = "-"
      isShort == raw[1] \in {":", "@", "#", "."}
      nameEnd == ScanTo(raw, 2, DirNameStops)
      name == IF isLong THEN Slice(raw, 2, nameEnd)
              ELSE CASE raw[1] = ":" -> <<"b", "i", "n", "d">>
                     [] raw[1] = "." -> <<"b", "i", "n", "d">>
                     [] raw[1] = "@" -> <<"o", "n">>
                     [] raw[1] = "#" -> <<"s", "l", "o", "t">>
      rest == IF isLong THEN SliceFrom(raw, nameEnd) ELSE Tail(raw)
      Directive(am) ==
        [ok |-> am.ok /\ name # <<>>, type |-> "DIRECTIVE", name |-> name,
         rawName |-> raw, source |-> src, start |-> from, end |-> to,
         hasValue |-> hasValue, content |-> content,
         hasArg |-> am.hasArg, arg |-> am.arg,
         modifiers |-> IF ~isLong /\ raw[1] = "."
                         THEN <<<<"p", "r", "o", "p">>>> \o am.modifiers
                         ELSE am.modifiers]
  IN IF isLong \/ isShort
       THEN Directive(DirArgAndModifiers(rest, ~isLong))
       ELSE [ok |-> TRUE, type |-> "ATTRIBUTE", name |-> raw,
             rawName |-> raw, source |-> src, start |-> from, end |-> to,
             hasValue |-> hasValue, content |-> content,
             hasArg |-> FALSE, arg |-> <<>>, modifiers |-> <<>>]

\* The attribute that starts at offset j of s (j is not a space, '>' or '/').
ParseAttr(s, j) ==
  LET nameEnd == ScanTo(s, j, AttrNameStops)
      raw == Slice(s, j, nameEnd)
      eq == SkipSpaces(s, nameEnd)
      hasValue == eq < Len(s) /\ s[eq + 1] = "="
      v == IF hasValue THEN SkipSpaces(s, eq + 1) ELSE nameEnd
      quoted == hasValue /\ v < Len(s) /\ IsQuote(s[v + 1])
      q == IF quoted THEN s[v + 1] ELSE ""
      close == IF quoted THEN ScanTo(s, v + 1, {q}) ELSE ScanTo(s, v, UnquotedStops)
      content == IF quoted THEN Slice(s, v + 1, close) ELSE Slice(s, v, close)
      to == IF ~hasValue THEN nameEnd ELSE IF quoted THEN close + 1 ELSE close
      BadInName(c) == IsQuote(c) \/ c = "<"
      BadUnquoted(c) == IsQuote(c) \/ c \in {"<", "="}
      wellFormed ==
        /\ raw # <<>>
        /\ \A i \in 1..Len(raw) : ~BadInName(raw[i])
        /\ quoted => close < Len(s)
        /\ (hasValue /\ ~quoted) =>
              content # <<>> /\ \A i \in 1..Len(content) : ~BadUnquoted(content[i])
      Checked(node) ==
        IF wellFormed /\ node.ok THEN node ELSE [ok |-> FALSE, end |-> Len(s)]
  IN Checked(PropNode(raw, Slice(s, j, to), j, to, hasValue, content))

\* The attributes of an open tag from offset i on, up to its '>' or '/>'.
RECURSIVE ParseAttrs(_, _, _)
ParseAttrs(s, i, props) ==
  LET j == SkipSpaces(s, i)
      Rest(a) == IF ~a.ok THEN [ok |-> FALSE] ELSE ParseAttrs(s, a.end, Append(props, a))
  IN IF j >= Len(s) THEN [ok |-> FALSE]
     ELSE IF s[j + 1] = ">" THEN [ok |-> TRUE, props |-> props, pos |-> j + 1, selfClosing |-> FALSE]
     ELSE IF s[j + 1] = "/"
       THEN IF j + 1 < Len(s) /\ s[j + 2] = ">"
              THEN [ok |-> TRUE, props |-> props, pos |-> j + 2, selfClosing |-> TRUE]
              ELSE [ok |-> FALSE]
     ELSE Rest(ParseAttr(s, j))

\* The nodes from offset i on, up to a closing tag or the end of the text.
RECURSIVE ParseChildren(_, _, _)
RECURSIVE ParseElement(_, _)

ParseChildren(s, i, nodes) ==
  LET AfterText(e) ==
        ParseChildren(s, e, Append(nodes,
          [type |-> "TEXT", hasChildren |-> FALSE, start |-> i, end |-> e]))
      AfterElement(el) ==
        IF ~el.ok THEN [ok |-> FALSE]
        ELSE ParseChildren(s, el.node.end, Append(nodes, el.node))
  IN IF i >= Len(s) THEN [ok |-> TRUE, nodes |-> nodes, pos |-> i]
     ELSE IF s[i + 1] # "<" THEN AfterText(ScanTo(s, i, {"<"}))
     ELSE IF i + 1 < Len(s) /\ s[i + 2] = "/"
       THEN [ok |-> TRUE, nodes |-> nodes, pos |-> i]
     ELSE AfterElement(ParseElement(s, i))

\* The element whose '<' is at offset i.
ParseElement(s, i) ==
  LET tagEnd == ScanTo(s, i + 1, TagNameStops)
      tag == Slice(s, i + 1, tagEnd)
      closing == <<"<", "/">> \o tag \o <<">">>
      Kids(attrs) ==
        IF attrs.ok /\ ~attrs.selfClosing
          THEN ParseChildren(s, attrs.pos, <<>>)
          ELSE [ok |-> attrs.ok, nodes |-> <<>>, pos |-> IF attrs.ok THEN attrs.pos ELSE 0]
      Node(attrs, kids, to) ==
        IF tag # <<>> /\ attrs.ok /\ kids.ok
             /\ (attrs.selfClosing \/ StartsWithAt(s, closing, kids.pos))
          THEN [ok |-> TRUE,
                node |-> [type |-> "ELEMENT", hasChildren |-> TRUE, tag |-> tag,
                          props |-> attrs.props, children |-> kids.nodes,
                          start |-> i, end |-> to, source |-> Slice(s, i, to)]]
          ELSE [ok |-> FALSE]
      Close(attrs, kids) ==
        Node(attrs, kids, IF attrs.selfClosing THEN kids.pos ELSE kids.pos + Len(closing))
      Open(attrs) == Close(attrs, Kids(attrs))
  IN Open(ParseAttrs(s, tagEnd, <<>>))

\* parseDom(content): the root's children, or a raised error.
parseDom(content) ==
  LET Root(r) == IF r.ok /\ r.pos = Len(content) THEN [ok |-> TRUE, children |-> r.nodes]
                 ELSE [ok |-> FALSE]
  IN Root(ParseChildren(content, 0, <<>>))

TemplateOpen == <<"<", "t", "e", "m", "p", "l", "a", "t", "e", ">">>
TemplateClose == <<"<", "/", "t", "e", "m", "p", "l", "a", "t", "e", ">">>

\* parseSfc(source).descriptor.template: the content between the first
\* <template> and the last </template>, with the offset of the content.
parseSfc(src) ==
  LET open == IndexOfSub(src, TemplateOpen)
      close == LastIndexOfSub(src, TemplateClose)
      from == open + Len(TemplateOpen)
  IN IF open = -1 \/ close = -1 \/ close < from
       THEN [hasTemplate |-> FALSE, content |-> <<>>, offset |-> 0]
       ELSE [hasTemplate |-> TRUE, content |-> Slice(src, from, close), offset |-> from]

----------------------------------------------------------------------------
(* Options (options.ts, types.ts)                                          *)

OptionNames ==
  {"attributeLayout", "classLayout", "directiveOrder", "directiveStyle",
   "normalizeDirectives", "orderAttributes", "orderDirectives",
   "removeDuplicates", "sameNameMode", "sortClasses"}

nBind == <<"b", "i", "n", "d">>
nOn == <<"o", "n">>
nSlot == <<"s", "l", "o", "t">>
nIf == <<"i", "f">>
nElse == <<"e", "l", "s", "e">>
nElseIf == <<"e", "l", "s", "e", "-", "i", "f">>
nFor == <<"f", "o", "r">>
nModel == <<"m", "o", "d", "e", "l">>
nClass == <<"c", "l", "a", "s", "s">>

defaultOptions ==
  [attributeLayout |-> "inline",
   classLayout |-> "inline",
   directiveOrder |-> <<nIf, nElse, nElseIf, nFor, nOn, nModel, nBind>>,
   directiveStyle |-> "short",
   normalizeDirectives |-> TRUE,
   orderAttributes |-> TRUE,
   orderDirectives |-> TRUE,
   removeDuplicates |-> TRUE,
   sameNameMode |-> "ignore",
   sortClasses |-> TRUE]

\* { ...defaultOptions, ...options }
resolveOptions(o) ==
  [k \in OptionNames |-> IF k \in DOMAIN o THEN o[k] ELSE defaultOptions[k]]

----------------------------------------------------------------------------
(* directiveTransform.ts                                                   *)

\* Mutant: a directive without an argument is rebuilt as well
buildDirectiveWithoutArgument(raw, name, arg, modifierStr, valuePart, style) ==
  LET isSupported == name = <<"b", "i", "n", "d">> \/ name = <<"o", "n">>
                       \/ name = <<"s", "l", "o", "t">>
      prefix == IF style = "short"
                  THEN CASE name = <<"b", "i", "n", "d">> -> <<":">>
                         [] name = <<"o", "n">> -> <<"@">>
                         [] name = <<"s", "l", "o", "t">> -> <<"#">>
                  ELSE <<"v", "-">> \o name \o <<":">>
  IN IF isSupported THEN prefix \o arg \o modifierStr \o valuePart
     ELSE raw

\* Mutant: the sigils of on and slot are exchanged
buildDirectiveSigilsExchanged(raw, name, arg, modifierStr, valuePart, style) ==
  LET isSupported == name = <<"b", "i", "n", "d">> \/ name = <<"o", "n">>
                       \/ name = <<"s", "l", "o", "t">>
      prefix == IF style = "short"
                  THEN CASE name = <<"b", "i", "n", "d">> -> <<":">>
                         [] name = <<"o", "n">> -> <<"#">>
                         [] name = <<"s", "l", "o", "t">> -> <<"@">>
                  ELSE <<"v", "-">> \o name \o <<":">>
  IN IF isSupported /\ arg # <<>> THEN prefix \o arg \o modifierStr \o valuePart
     ELSE raw

buildDirective(raw, name, arg, modifierStr, valuePart, style) ==
  LET isSupported == name = nBind \/ name = nOn \/ name = nSlot
  IN IF ~isSupported THEN raw
     ELSE IF style = "short" /\ name = nBind /\ arg # <<>>
       THEN <<":">> \o arg \o modifierStr \o valuePart
     ELSE IF style = "short" /\ name = nOn /\ arg # <<>>
       THEN <<"@">> \o arg \o modifierStr \o valuePart
     ELSE IF style = "short" /\ name = nSlot /\ arg # <<>>
       THEN <<"#">> \o arg \o modifierStr \o valuePart
     ELSE IF style = "long" /\ name = nBind /\ arg # <<>>
       THEN <<"v", "-", "b", "i", "n", "d", ":">> \o arg \o modifierStr \o valuePart
     ELSE IF style = "long" /\ name = nOn /\ arg # <<>>
       THEN <<"v", "-", "o", "n", ":">> \o arg \o modifierStr \o valuePart
     ELSE IF style = "long" /\ name = nSlot /\ arg # <<>>
       THEN <<"v", "-", "s", "l", "o", "t", ":">> \o arg \o modifierStr \o valuePart
     ELSE raw

NonEmpty(m) == m # <<>>

\* "." + modifiers.join(".") or ""
ModifierStr(prop) ==
  LET modifiers == SelectSeq(prop.modifiers, NonEmpty)
  IN IF modifiers # <<>> THEN <<".">> \o Join(modifiers, <<".">>) ELSE <<>>

\* Mutant: the value part is written anew around the expression
OriginalValuePartOfExpression(prop) ==
  IF prop.hasValue THEN <<"=", "\"">> \o prop.content \o <<"\"">> ELSE <<>>

\* raw.slice(raw.indexOf("=")) when the directive has an expression
OriginalValuePart(prop) ==
  LET raw == prop.source
      equalIndex == IndexOf(raw, "=")
  IN IF prop.hasValue /\ equalIndex # -1 THEN SliceFrom(raw, equalIndex) ELSE <<>>

\* Mutant: the added value keeps the brackets of a dynamic argument
SameNameValuePartBracketed(prop, sameNameMode) ==
  LET arg == IF prop.hasArg THEN prop.arg ELSE <<>>
      isDynamic == arg # <<>> /\ arg[1] = "[" /\ arg[Len(arg)] = "]"
      normalizedArg == Trim(IF isDynamic THEN Slice(arg, 1, Len(arg) - 1) ELSE arg)
      original == OriginalValuePart(prop)
  IN IF prop.name = nBind /\ arg # <<>> /\ sameNameMode # "ignore"
       THEN IF sameNameMode = "removeValue" /\ prop.hasValue
              THEN IF Trim(prop.content) = normalizedArg THEN <<>> ELSE original
            ELSE IF sameNameMode = "addValue" /\ ~prop.hasValue
              THEN <<"=", "\"">> \o Trim(arg) \o <<"\"">>
            ELSE original
       ELSE original

\* Mutant: the expression is compared without being trimmed
SameNameValuePartUntrimmed(prop, sameNameMode) ==
  LET arg == IF prop.hasArg THEN prop.arg ELSE <<>>
      isDynamic == arg # <<>> /\ arg[1] = "[" /\ arg[Len(arg)] = "]"
      normalizedArg == Trim(IF isDynamic THEN Slice(arg, 1, Len(arg) - 1) ELSE arg)
      original == OriginalValuePart(prop)
  IN IF prop.name = nBind /\ arg # <<>> /\ sameNameMode # "ignore"
       THEN IF sameNameMode = "removeValue" /\ prop.hasValue
              THEN IF prop.content = normalizedArg THEN <<>> ELSE original
            ELSE IF sameNameMode = "addValue" /\ ~prop.hasValue
              THEN <<"=", "\"">> \o normalizedArg \o <<"\"">>
            ELSE original
       ELSE original

\* The value part after the same-name handling for v-bind
SameNameValuePart(prop, sameNameMode) ==
  LET arg == IF prop.hasArg THEN prop.arg ELSE <<>>
      isDynamic == arg # <<>> /\ arg[1] = "[" /\ arg[Len(arg)] = "]"
      normalizedArg == Trim(IF isDynamic THEN Slice(arg, 1, Len(arg) - 1) ELSE arg)
      original == OriginalValuePart(prop)
  IN IF prop.name = nBind /\ arg # <<>> /\ sameNameMode # "ignore"
       THEN IF sameNameMode = "removeValue" /\ prop.hasValue
              THEN IF Trim(prop.content) = normalizedArg THEN <<>> ELSE original
            ELSE IF sameNameMode = "addValue" /\ ~prop.hasValue
              THEN <<"=", "\"">> \o normalizedArg \o <<"\"">>
            ELSE original
       ELSE original

\* The normalized directive string (newDirective)
NewDirective(prop, style, sameNameMode) ==
  buildDirective(prop.source, prop.name, IF prop.hasArg THEN prop.arg ELSE <<>>,
                 ModifierStr(prop), SameNameValuePart(prop, sameNameMode), style)

\* A Replacement, or changed = FALSE for null
getDirectiveTransform(prop, templateOffset, style, sameNameMode) ==
  LET Result(newDirective) ==
        IF prop.source # newDirective
          THEN [changed |-> TRUE, start |-> templateOffset + prop.start,
                end |-> templateOffset + prop.end, value |-> newDirective]
          ELSE [changed |-> FALSE, value |-> prop.source]
  IN IF prop.source = <<>> THEN [changed |-> FALSE, value |-> prop.source]
     ELSE Result(NewDirective(prop, style, sameNameMode))

----------------------------------------------------------------------------
(* attributeFormatter.ts                                                   *)

isAttributeNode(p) == p.type = "ATTRIBUTE"
isDirectiveNode(p) == p.type = "DIRECTIVE"

cloneAttributeWithSource(original, newSource) == [original EXCEPT !.source = newSource]
cloneDirectiveWithSource(original, newSource) == [original EXCEPT !.source = newSource]

\* Array.prototype.sort with a comparator: the sort is stable, so an item
\* comes before another when it compares lower, or equal and was first.
\* compare[i][j] is the comparator's result for items[i] and items[j].
ArraySort(items, compare) ==
  LET n == Len(items)
      Before(j, i) == \/ compare[j][i] < 0
                      \/ compare[j][i] = 0 /\ j < i
      Rank(i) == Cardinality({j \in 1..n : Before(j, i)})
  IN [r \in 1..n |-> items[CHOOSE i \in 1..n : Rank(i) = r - 1]]

asciiCompare(a, b) == IF a = b THEN 0 ELSE IF StrLess(a, b) THEN -1 ELSE 1

\* Mutant: equal items are put in the reverse of their original order
ReverseTieCompare(result, a, b) == IF result # 0 THEN result ELSE b.index - a.index

\* The comparator stableSort hands to sort, result being
\* compare(a.value, b.value): the result, then the index.
StableCompare(result, a, b) == IF result # 0 THEN result ELSE a.index - b.index

\* compare[i][j] is compare(items[i], items[j])
stableSort(items, compare) ==
  LET n == Len(items)
      indexed == [i \in 1..n |-> [value |-> items[i], index |-> i - 1]]
      byIndex == [i \in 1..n |-> [j \in 1..n |->
                    StableCompare(compare[i][j], indexed[i], indexed[j])]]
      ordered == ArraySort(indexed, byIndex)
  IN [i \in 1..n |-> ordered[i].value]

\* rawValue.split(/\s+/).filter(Boolean)
RECURSIVE SplitClasses(_)
SplitClasses(rawValue) ==
  LET from == SkipSpaces(rawValue, 0)
      to == IF from < Len(rawValue) THEN ScanTo(rawValue, from, Spaces) ELSE from
  IN IF from >= Len(rawValue) THEN <<>>
     ELSE <<Slice(rawValue, from, to)>> \o SplitClasses(SliceFrom(rawValue, to))

\* [...new Set(processed)]: the first occurrence of every token
RemoveDuplicates(processed) ==
  LET First(i) == \A j \in 1..(i - 1) : processed[j] # processed[i]
      keep == {i \in 1..Len(processed) : First(i)}
      Nth(r) == CHOOSE i \in keep : Cardinality({j \in keep : j < i}) = r - 1
  IN [r \in 1..Cardinality(keep) |-> processed[Nth(r)]]

SortClasses(processed) ==
  ArraySort(processed,
            [i \in 1..Len(processed) |-> [j \in 1..Len(processed) |->
               asciiCompare(processed[i], processed[j])]])

\* originalSource.match(/\n(\s+)/): the capture, or "  " without a match
ClassIndent(originalSource) ==
  LET n == Len(originalSource)
      Hit(i) == originalSource[i] = "\n" /\ i < n /\ IsSpace(originalSource[i + 1])
      at == CHOOSE i \in 1..n : Hit(i) /\ \A j \in 1..(i - 1) : ~Hit(j)
  IN IF \E i \in 1..n : Hit(i)
       THEN Slice(originalSource, at, SkipSpaces(originalSource, at))
       ELSE <<" ", " ">>

Undefined == <<"u", "n", "d", "e", "f", "i", "n", "e", "d">>

\* The tokens of the class value after the enabled steps
ProcessedClasses(prop, options) ==
  LET Sort(processed) == IF options.sortClasses THEN SortClasses(processed) ELSE processed
      Dedupe(processed) ==
        Sort(IF options.removeDuplicates THEN RemoveDuplicates(processed) ELSE processed)
  IN Dedupe(SplitClasses(prop.content))

\* rebuiltValue
RebuiltClassValue(prop, options) ==
  LET Lines(rest, indent) == [i \in 1..Len(rest) |-> <<"\n">> \o indent \o rest[i]]
      Value(processed) ==
        IF options.classLayout = "preserve" /\ Includes(prop.source, "\n")
          THEN (IF processed = <<>> THEN Undefined ELSE processed[1])
                 \o Join(Lines(IF processed = <<>> THEN <<>> ELSE Tail(processed),
                               ClassIndent(prop.source)), <<>>)
          ELSE Join(processed, <<" ">>)
  IN Value(ProcessedClasses(prop, options))

ClassQuote(originalSource) == IF Includes(originalSource, "'") THEN "'" ELSE "\""

\* rebuilt: class=<quote><rebuiltValue><quote>
RebuiltClass(prop, options) ==
  LET quote == ClassQuote(prop.source)
  IN nClass \o <<"=", quote>> \o RebuiltClassValue(prop, options) \o <<quote>>

IsProcessedClass(prop, options) ==
  /\ isAttributeNode(prop)
  /\ prop.name = nClass
  /\ prop.hasValue
  /\ options.sortClasses \/ options.removeDuplicates

\* Mutant: directives are normalized whatever normalizeDirectives says
TransformPropNormalizing(prop, options) ==
  LET Directive(res) ==
        IF res.changed /\ res.value # prop.source
          THEN [changed |-> TRUE, prop |-> cloneDirectiveWithSource(prop, res.value)]
          ELSE [changed |-> FALSE, prop |-> prop]
      Other ==
        IF isDirectiveNode(prop)
          THEN Directive(getDirectiveTransform(prop, 0, options.directiveStyle,
                                               options.sameNameMode))
          ELSE [changed |-> FALSE, prop |-> prop]
      Class(rebuilt) ==
        IF rebuilt # prop.source
          THEN [changed |-> TRUE, prop |-> cloneAttributeWithSource(prop, rebuilt)]
          ELSE Other
  IN IF IsProcessedClass(prop, options) THEN Class(RebuiltClass(prop, options)) ELSE Other

\* The callback of the first pass: the prop, or its clone with a new source
TransformProp(prop, options) ==
  LET Directive(res) ==
        IF res.changed /\ res.value # prop.source
          THEN [changed |-> TRUE, prop |-> cloneDirectiveWithSource(prop, res.value)]
          ELSE [changed |-> FALSE, prop |-> prop]
      Other ==
        IF options.normalizeDirectives /\ isDirectiveNode(prop)
          THEN Directive(getDirectiveTransform(prop, 0, options.directiveStyle,
                                               options.sameNameMode))
          ELSE [changed |-> FALSE, prop |-> prop]
      Class(rebuilt) ==
        IF rebuilt # prop.source
          THEN [changed |-> TRUE, prop |-> cloneAttributeWithSource(prop, rebuilt)]
          ELSE Other
  IN IF IsProcessedClass(prop, options) THEN Class(RebuiltClass(prop, options)) ELSE Other

\* transformed
Transformed(props, options) ==
  [i \in 1..Len(props) |-> TransformProp(props[i], options).prop]

ChangedByFirstPass(props, options) ==
  \E i \in 1..Len(props) : TransformProp(props[i], options).changed

\* Mutant: the gap is read before the last prop
SeparatorBeforeLast(element, options) ==
  LET props == element.props
      n == Len(props)
      gap == Slice(element.source, props[n - 1].end - element.start,
                   props[n].start - element.start)
  IN IF options.attributeLayout = "preserve" /\ n > 1 /\ Includes(gap, "\n")
       THEN gap
       ELSE <<" ">>

\* separator
Separator(element, options) ==
  LET props == element.props
      firstEnd == props[1].end - element.start
      secondStart == props[2].start - element.start
      gap == Slice(element.source, firstEnd, secondStart)
  IN IF options.attributeLayout = "preserve" /\ Len(props) > 1 /\ Includes(gap, "\n")
       THEN gap
       ELSE <<" ">>

FallbackWeight == 1000

\* weightMap.has(name) ? weightMap.get(name) : 1000
Weight(name, directiveOrder) ==
  LET at == {i \in 1..Len(directiveOrder) : directiveOrder[i] = name}
  IN IF at # {} THEN (CHOOSE i \in at : \A j \in at : j <= i) - 1 ELSE FallbackWeight

DirectiveCompare(a, b, directiveOrder) ==
  LET aWeight == Weight(a.name, directiveOrder)
      bWeight == Weight(b.name, directiveOrder)
  IN IF aWeight # bWeight THEN aWeight - bWeight ELSE asciiCompare(a.name, b.name)

\* Mutant: an attribute with an empty value counts as valueless
AttributeCompareNonEmpty(a, b) ==
  LET aHasValue == a.hasValue /\ a.content # <<>>
      bHasValue == b.hasValue /\ b.content # <<>>
  IN IF aHasValue # bHasValue THEN (IF aHasValue THEN -1 ELSE 1)
     ELSE asciiCompare(a.name, b.name)

AttributeCompare(a, b) ==
  LET aHasValue == a.hasValue
      bHasValue == b.hasValue
  IN IF aHasValue # bHasValue THEN (IF aHasValue THEN -1 ELSE 1)
     ELSE asciiCompare(a.name, b.name)

\* Mutant: the sorted props are put in front of the others
SpliceBackInFront(list, replacements, type) ==
  LET others == SelectSeq(list, LAMBDA p : p.type # type)
  IN replacements \o others

\* sorted.map((p) => (p.type === type ? replacements[i++] : p))
SpliceBack(list, replacements, type) ==
  [k \in 1..Len(list) |->
     IF list[k].type = type
       THEN replacements[Cardinality({j \in 1..k : list[j].type = type})]
       ELSE list[k]]

\* sorted after the directive ordering
OrderDirectives(list, options) ==
  LET directives == SelectSeq(list, isDirectiveNode)
      n == Len(directives)
      compare == [i \in 1..n |-> [j \in 1..n |->
                    DirectiveCompare(directives[i], directives[j], options.directiveOrder)]]
      sortedDirectives == stableSort(directives, compare)
  IN IF options.orderDirectives THEN SpliceBack(list, sortedDirectives, "DIRECTIVE")
     ELSE list

\* sorted after the attribute ordering
OrderAttributes(list, options) ==
  LET attributes == SelectSeq(list, isAttributeNode)
      n == Len(attributes)
      compare == [i \in 1..n |-> [j \in 1..n |->
                    AttributeCompare(attributes[i], attributes[j])]]
      sortedAttributes == stableSort(attributes, compare)
  IN IF options.orderAttributes THEN SpliceBack(list, sortedAttributes, "ATTRIBUTE")
     ELSE list

AfterPass2(props, options) == OrderDirectives(Transformed(props, options), options)

Sorted(props, options) == OrderAttributes(AfterPass2(props, options), options)

\* Mutant: an ordering pass that ran always counts as a change
DiffersAlways(list, props) == TRUE

DiffersFrom(list, props) == \E idx \in 1..Len(list) : list[idx] # props[idx]

\* changed, after the three passes
Changed(props, options) ==
  LET AfterPass3(c2) ==
        IF options.orderAttributes /\ ~c2
          THEN DiffersFrom(Sorted(props, options), props) ELSE c2
      AfterPass2Changed(c1) ==
        AfterPass3(IF options.orderDirectives /\ ~c1
                     THEN DiffersFrom(AfterPass2(props, options), props) ELSE c1)
  IN AfterPass2Changed(ChangedByFirstPass(props, options))

\* Mutant: the early return for an unchanged block is missing
buildWithoutSkip(element, templateOffset, options) ==
  LET props == element.props
      Sources(sorted) == [i \in 1..Len(sorted) |-> sorted[i].source]
  IN IF Len(props) = 0 THEN [isNull |-> TRUE]
     ELSE [isNull |-> FALSE,
           start |-> templateOffset + props[1].start,
           end |-> templateOffset + props[Len(props)].end,
           value |-> Join(Sources(Sorted(props, options)), Separator(element, options))]

\* Mutant: the span runs to the end of the element
buildToElementEnd(element, templateOffset, options) ==
  LET props == element.props
      Sources(sorted) == [i \in 1..Len(sorted) |-> sorted[i].source]
  IN IF Len(props) = 0 THEN [isNull |-> TRUE]
     ELSE IF ~Changed(props, options) THEN [isNull |-> TRUE]
     ELSE [isNull |-> FALSE,
           start |-> templateOffset + props[1].start,
           end |-> templateOffset + element.end,
           value |-> Join(Sources(Sorted(props, options)), Separator(element, options))]

\* Mutant: the span is taken from the reordered list
buildSpanOfSorted(element, templateOffset, options) ==
  LET props == element.props
      Sources(sorted) == [i \in 1..Len(sorted) |-> sorted[i].source]
  IN IF Len(props) = 0 THEN [isNull |-> TRUE]
     ELSE IF ~Changed(props, options) THEN [isNull |-> TRUE]
     ELSE [isNull |-> FALSE,
           start |-> templateOffset + Sorted(props, options)[1].start,
           end |-> templateOffset + Sorted(props, options)[Len(props)].end,
           value |-> Join(Sources(Sorted(props, options)), Separator(element, options))]

\* The Replacement, or isNull = TRUE for null
buildUnifiedAttributeReplacement(element, templateOffset, options) ==
  LET props == element.props
      first == props[1]
      last == props[Len(props)]
      Sources(sorted) == [i \in 1..Len(sorted) |-> sorted[i].source]
  IN IF Len(props) = 0 THEN [isNull |-> TRUE]
     ELSE IF ~Changed(props, options) THEN [isNull |-> TRUE]
     ELSE [isNull |-> FALSE,
           start |-> templateOffset + first.start,
           end |-> templateOffset + last.end,
           value |-> Join(Sources(Sorted(props, options)), Separator(element, options))]

----------------------------------------------------------------------------
(* transformer.ts, test/utils/applyEdits.ts                                *)

isElementNode(node) == node.type = "ELEMENT"
hasChildren(node) == node.hasChildren

\* walk applied to every node of a list, in order: the replacements pushed
RECURSIVE WalkAll(_, _, _)
walk(node, contentStartOffset, opts) ==
  LET Pushed(res) ==
        IF ~res.isNull
          THEN <<[start |-> res.start, end |-> res.end, value |-> res.value]>>
          ELSE <<>>
  IN (IF isElementNode(node)
        THEN Pushed(buildUnifiedAttributeReplacement(node, contentStartOffset, opts))
        ELSE <<>>)
       \o (IF hasChildren(node)
             THEN WalkAll(node.children, contentStartOffset, opts)
             ELSE <<>>)

WalkAll(nodes, contentStartOffset, opts) ==
  IF nodes = <<>> THEN <<>>
  ELSE walk(nodes[1], contentStartOffset, opts)
         \o WalkAll(Tail(nodes), contentStartOffset, opts)

\* descriptor.template and the AST of its content, as vuenifyTransform gets
\* them from the two parsers
ParseSource(src) ==
  LET template == parseSfc(src)
  IN [template |-> template, ast |-> parseDom(template.content)]

\* Mutant: when the parser raises, the replacements of the elements read
\* before the failure are returned
TransformParsedKeepingCollected(p, options) ==
  LET opts == resolveOptions(options)
      template == p.template
      ast == p.ast
      content == template.content
      readable == {k \in 0..Len(content) : parseDom(Slice(content, 0, k)).ok}
      last == CHOOSE k \in readable : \A j \in readable : j <= k
  IN IF ~template.hasTemplate \/ template.content = <<>> \/ Trim(template.content) = <<>>
       THEN <<>>
     ELSE IF ~ast.ok
       THEN WalkAll(parseDom(Slice(content, 0, last)).children, template.offset, opts)
     ELSE WalkAll(ast.children, template.offset, opts)

\* vuenifyTransform from the parsers' results on
TransformParsed(p, options) ==
  LET opts == resolveOptions(options)
      template == p.template
      ast == p.ast
  IN IF ~template.hasTemplate \/ template.content = <<>> \/ Trim(template.content) = <<>>
       THEN <<>>
     ELSE IF ~ast.ok THEN <<>>
     ELSE WalkAll(ast.children, template.offset, opts)

vuenifyTransform(src, options) == TransformParsed(ParseSource(src), options)

DescendingStart(a, b) == b.start - a.start

\* str.slice(0, r.start) + r.value + str.slice(r.end)
ApplyOne(str, r) == Slice(str, 0, r.start) \o r.value \o SliceFrom(str, r.end)

RECURSIVE Reduce(_, _)
Reduce(str, rs) == IF rs = <<>> THEN str ELSE Reduce(ApplyOne(str, rs[1]), Tail(rs))

applyEdits(src, es) ==
  Reduce(src, ArraySort(es, [i \in 1..Len(es) |-> [j \in 1..Len(es) |->
                               DescendingStart(es[i], es[j])]]))

----------------------------------------------------------------------------
(* The inputs: documents and settings                                      *)

MaxProps == 3
MaxElements == 2
MaxTokens == 3
MaxModifiers == 2
MaxRounds == 2
LongLen == 1002

Doc(body) == TemplateOpen \o body \o TemplateClose

\* props joined by gap1 after the first prop and gap2 after the others
Block(props, gap1, gap2) ==
  IF Len(props) <= 1 THEN Join(props, gap1)
  ELSE props[1] \o gap1 \o Join(Tail(props), gap2)

OpenTag(tag, block) ==
  IF block = <<>> THEN <<"<">> \o tag \o <<">">>
  ELSE <<"<">> \o tag \o <<" ">> \o block \o <<">">>

CloseTag(tag) == <<"<", "/">> \o tag \o <<">">>

Element(tag, block, inner) == OpenTag(tag, block) \o inner \o CloseTag(tag)

SeqsUpTo(S, n) == UNION {[1..k -> S] : k \in 0..n}

\* Props of the directive-ordering blocks (one attribute among them)
DirectiveProps ==
  {
   <<"v", "-", "i", "f", "=", "\"", "x", "\"">>,  \* v-if="x"
   <<"v", "-", "z">>,  \* v-z
   <<"v", "-", "o", "n", ":", "b">>,  \* v-on:b
   <<"@", "a", ".", "s">>,  \* @a.s
   <<"b", "=", "\"", "x", "\"">>  \* b="x"
  }

\* Props of the attribute-ordering blocks (one directive among them)
AttributeProps ==
  {
   <<"b", "=", "\"", "x", "\"">>,  \* b="x"
   <<"a">>,  \* a
   <<"c", "=", "\"", "\"">>,  \* c=""
   <<"d">>  \* d
  }

\* The whitespace after the first prop and after each further prop
GapPatterns ==
  {<<<<" ">>, <<" ">>>>,
   <<<<" ", " ">>, <<"\n", " ">>>>,
   <<<<"\n", " ", " ">>, <<" ">>>>}

\* Props of the blocks that mix directives and attributes
MixedProps ==
  {
   <<"v", "-", "i", "f", "=", "\"", "x", "\"">>,  \* v-if="x"
   <<"v", "-", "z">>,  \* v-z
   <<"b", "=", "\"", "x", "\"">>,  \* b="x"
   <<"d">>  \* d
  }

OrderingBlocks ==
  {Block(ps, g[1], g[2]) :
     ps \in SeqsUpTo(DirectiveProps, MaxProps) \cup SeqsUpTo(AttributeProps, MaxProps)
               \cup SeqsUpTo(MixedProps, MaxProps),
     g \in GapPatterns}

OrderingSettings ==
  {[orderDirectives |-> od, orderAttributes |-> oa,
    normalizeDirectives |-> nd, attributeLayout |-> al] :
     od \in BOOLEAN, oa \in BOOLEAN, nd \in BOOLEAN, al \in {"inline", "preserve"}}

\* Decimal digits of a natural number
RECURSIVE Decimal(_)
Decimal(k) == IF k < 10 THEN <<Digits[k + 1]>> ELSE Decimal(k \div 10) \o <<Digits[(k % 10) + 1]>>

\* A directive priority list of LongLen distinct names k0, k1, ...
KeyName(k) == <<"k">> \o Decimal(k)
LongPriority == [i \in 1..LongLen |-> KeyName(i - 1)]

\* Blocks of an unknown directive and directives named late in LongPriority
LongPriorityBlocks ==
  {Block(ps, <<" ">>, <<" ">>) :
     ps \in SeqsUpTo({<<"v", "-", "z">>,
                      <<"v", "-">> \o KeyName(LongLen - 1),
                      <<"v", "-">> \o KeyName(LongLen - 3)}, 2)}

PriorityBlocks ==
  {Block(ps, <<" ">>, <<" ">>) : ps \in SeqsUpTo(DirectiveProps, MaxProps)}

PrioritySettings ==
  {[directiveOrder |-> order, normalizeDirectives |-> FALSE] :
     order \in {<<>>, <<<<"z">>, nOn>>, <<nBind, nOn, nIf>>}}

\* Class tokens; "B" precedes "a" in code unit order only
ClassTokens == {<<"a">>, <<"B">>, <<"a", "b">>}

\* The whitespace between two class tokens
ClassJoiners == {<<" ">>, <<"\n", " ", " ">>, <<"\n">>}

\* The whitespace before the first class token
ClassPads == {<<>>, <<" ">>, <<"\n", " ">>}

\* Class values of up to MaxTokens tokens, the values of whitespace only
\* among them
ClassValues ==
  {pad \o Join(tokens, joiner) :
     tokens \in SeqsUpTo(ClassTokens, MaxTokens), joiner \in ClassJoiners, pad \in ClassPads}

ClassAttribute(value, quote) ==
  <<"c", "l", "a", "s", "s", "=">> \o <<quote>> \o value \o <<quote>>

ClassSettings ==
  {[sortClasses |-> sc, removeDuplicates |-> rd, classLayout |-> cl] :
     sc \in BOOLEAN, rd \in BOOLEAN, cl \in {"inline", "preserve"}}

\* The spellings of a directive up to its argument
DirectiveHeads ==
  {<<"v", "-", "b", "i", "n", "d", ":">>, <<":">>, <<".">>,
   <<"v", "-", "o", "n", ":">>, <<"@">>,
   <<"v", "-", "s", "l", "o", "t", ":">>, <<"#">>,
   <<"v", "-", "z", ":">>}

\* A static and a dynamic argument, and a dynamic argument written with
\* an "=" inside the brackets
DirectiveArgs == {<<"a">>, <<"[", "a", "]">>, <<"[", "a", "=", "b", "]">>}

\* Up to MaxModifiers modifiers, written .m.n
ModifierLists == SeqsUpTo({<<"m">>, <<"n">>}, MaxModifiers)

ModifierText(mods) == IF mods = <<>> THEN <<>> ELSE <<".">> \o Join(mods, <<".">>)

\* No value, and values equal to the argument or not, padded, in single
\* quotes, with whitespace after the "=", and with an "=" in the expression
DirectiveValues ==
  {<<>>,
   <<"=", "\"", "a", "=", "b", "\"">>,
   <<"=", "\"", "a", "\"">>,
   <<"=", "\"", "b", "\"">>,
   <<"=", "\"", " ", "a", " ", "\"">>,
   <<"=", "'", "a", "'">>,
   <<"=", " ", "\"", "a", "\"">>}

\* Directives with an argument, and directives without one
DirectiveTexts ==
  {head \o arg \o ModifierText(mods) \o value :
     head \in DirectiveHeads, arg \in DirectiveArgs,
     mods \in ModifierLists, value \in DirectiveValues}
  \cup {name \o ModifierText(mods) \o value :
          name \in {<<"v", "-", "b", "i", "n", "d">>, <<"v", "-", "o", "n">>,
                    <<"v", "-", "s", "l", "o", "t">>, <<"v", "-", "i", "f">>},
          mods \in {<<>>, <<<<"m">>>>}, value \in DirectiveValues}

DirectiveSettings ==
  {[normalizeDirectives |-> nd, directiveStyle |-> style, sameNameMode |-> mode] :
     nd \in BOOLEAN, style \in {"short", "long"},
     mode \in {"ignore", "addValue", "removeValue"}}

\* The prop blocks of the elements of a document: none, a block of a
\* directive, a class and attributes on two lines, and a class whose value
\* holds an apostrophe
DocBlocks ==
  {<<>>,
   \* :a="a"\n  class="b a b" d v-on:b="h"
   <<":", "a", "=", "\"", "a", "\"", "\n", " ", " ",
     "c", "l", "a", "s", "s", "=", "\"", "b", " ", "a", " ", "b", "\"", " ",
     "d", " ", "v", "-", "o", "n", ":", "b", "=", "\"", "h", "\"">>,
   \* class="a' b='c"
   <<"c", "l", "a", "s", "s", "=", "\"", "a", "'", " ", "b", "=", "'", "c", "\"">>}

\* The elements from the k-th on; rels[k] tells whether element k + 1 is
\* the first child of element k or its next sibling
RECURSIVE RenderFrom(_, _, _)
RenderFrom(blocks, rels, k) ==
  IF k > Len(blocks) THEN <<>>
  ELSE IF k < Len(blocks) /\ rels[k] = "child"
    THEN Element(<<"p">>, blocks[k], RenderFrom(blocks, rels, k + 1))
  ELSE Element(<<"p">>, blocks[k], <<>>) \o RenderFrom(blocks, rels, k + 1)

\* Documents of up to MaxElements elements, nested and side by side
Documents ==
  UNION {{Doc(RenderFrom(blocks, rels, 1)) :
            blocks \in [1..n -> DocBlocks], rels \in [1..(n - 1) -> {"child", "sibling"}]} :
         n \in 1..MaxElements}

DocSettings ==
  {[sortClasses |-> sc, removeDuplicates |-> rd, normalizeDirectives |-> nd,
    orderDirectives |-> od, orderAttributes |-> oa, attributeLayout |-> al] :
     sc \in BOOLEAN, rd \in BOOLEAN, nd \in BOOLEAN, od \in BOOLEAN, oa \in BOOLEAN,
     al \in {"inline", "preserve"}}

\* Documents that yield no edits: one without a template block, an empty
\* and a blank template, and templates the parser raises on after an
\* element that would be rewritten (an element that is never closed, a
\* dynamic argument that is never closed)
FailingDocuments ==
  LET p == <<"p">>
      block == <<"d", " ", "a">>
  IN {Element(p, block, <<>>),
      Doc(<<>>),
      Doc(<<" ", "\n", " ">>),
      Doc(Element(p, block, <<>>) \o OpenTag(p, block)),
      Doc(Element(p, block, <<>>) \o Element(p, <<":", "[", "a">>, <<>>))}

\* No formatting run is under way
NothingParsed ==
  [template |-> [hasTemplate |-> FALSE, content |-> <<>>, offset |-> 0],
   ast |-> [ok |-> FALSE]]

Init ==
  /\ \/ \E block \in OrderingBlocks, o \in OrderingSettings :
          source = Doc(Element(<<"p">>, block, <<>>)) /\ settings = o
     \/ \E block \in PriorityBlocks, o \in PrioritySettings :
          source = Doc(Element(<<"p">>, block, <<>>)) /\ settings = o
     \/ \E block \in LongPriorityBlocks :
          /\ source = Doc(Element(<<"p">>, block, <<>>))
          /\ settings = [directiveOrder |-> LongPriority, normalizeDirectives |-> FALSE]
  /\ edits = <<>>
  /\ parsed = NothingParsed
  /\ pc = "ready"
  /\ round = 0
  /\ runs = 1

\* vuenifyTransform(document.getText(), options); the parsers' results of
\* the call are kept in parsed
Transform ==
  /\ pc = "ready"
  /\ round < runs
  /\ parsed' = ParseSource(source)
  /\ edits' = TransformParsed(parsed', settings)
  /\ pc' = "computed"
  /\ UNCHANGED <<source, settings, round, runs>>

\* applyEdits(source, edits)
Apply ==
  /\ pc = "computed"
  /\ source' = applyEdits(source, edits)
  /\ edits' = <<>>
  /\ parsed' = NothingParsed
  /\ pc' = "ready"
  /\ round' = round + 1
  /\ UNCHANGED <<settings, runs>>

Next == Transform \/ Apply

Spec == Init /\ [][Next]_vars

\* One element with one class attribute, under every class setting
InitClass ==
  /\ \E value \in ClassValues, quote \in {"\"", "'"}, o \in ClassSettings :
       /\ source = Doc(Element(<<"p">>, ClassAttribute(value, quote), <<>>))
       /\ settings = o
  /\ edits = <<>>
  /\ parsed = NothingParsed
  /\ pc = "ready"
  /\ round = 0
  /\ runs = 1

SpecClass == InitClass /\ [][Next]_vars

\* One element with one directive, under every directive setting
InitDirective ==
  /\ \E text \in DirectiveTexts, o \in DirectiveSettings :
       /\ source = Doc(Element(<<"p">>, text, <<>>))
       /\ settings = o
  /\ edits = <<>>
  /\ parsed = NothingParsed
  /\ pc = "ready"
  /\ round = 0
  /\ runs = 1

SpecDirective == InitDirective /\ [][Next]_vars

\* A document of several elements, formatted MaxRounds times in a row
InitDoc ==
  /\ \E doc \in Documents \cup FailingDocuments, o \in DocSettings :
       /\ source = doc
       /\ settings = o
  /\ edits = <<>>
  /\ parsed = NothingParsed
  /\ pc = "ready"
  /\ round = 0
  /\ runs = MaxRounds

SpecDoc == InitDoc /\ [][Next]_vars

\* The value of an option that an options object names without defining it
undefined == "undefined"

\* The options that hold one of a few strings
StringOptions == {"attributeLayout", "classLayout", "directiveStyle", "sameNameMode"}

\* The strings an option can be set to
OptionChoices(k) ==
  CASE k = "attributeLayout" -> {"inline", "preserve"}
    [] k = "classLayout" -> {"inline", "preserve"}
    [] k = "directiveStyle" -> {"short", "long"}
    [] k = "sameNameMode" -> {"ignore", "removeValue", "addValue"}

\* Partial options objects: each string option is left out, set to one of
\* its strings, or named with the value undefined
OptionObjects ==
  UNION {{o \in [S -> UNION {OptionChoices(k) : k \in StringOptions} \cup {undefined}] :
            \A k \in S : o[k] \in OptionChoices(k) \cup {undefined}} :
         S \in SUBSET StringOptions}

\* Blocks that every string option has a say on
OptionBlocks ==
  {\* v-bind:a="a"\n  d c="x"
   <<"v", "-", "b", "i", "n", "d", ":", "a", "=", "\"", "a", "\"", "\n", " ", " ",
     "d", " ", "c", "=", "\"", "x", "\"">>,
   \* :a class="b\n a"
   <<":", "a", " ", "c", "l", "a", "s", "s", "=", "\"", "b", "\n", " ", "a", "\"">>,
   \* @b="h" :a="a"
   <<"@", "b", "=", "\"", "h", "\"", " ", ":", "a", "=", "\"", "a", "\"">>}

\* One element, formatted with a partial options object
InitOptions ==
  /\ \E block \in OptionBlocks, o \in OptionObjects :
       /\ source = Doc(Element(<<"p">>, block, <<>>))
       /\ settings = o
  /\ edits = <<>>
  /\ parsed = NothingParsed
  /\ pc = "ready"
  /\ round = 0
  /\ runs = 1

SpecOptions == InitOptions /\ [][Next]_vars

TypeOK ==
  /\ pc \in {"ready", "computed"}
  /\ runs \in 1..MaxRounds
  /\ round \in 0..runs

----------------------------------------------------------------------------
(* What the properties speak about                                         *)

Template == parsed.template
Ast == parsed.ast
Opts == resolveOptions(settings)
Offset == Template.offset

\* The element nodes of a list of nodes and of their descendants, in
\* document order
RECURSIVE ElementsOf(_)
ElementsOf(nodes) ==
  IF nodes = <<>> THEN <<>>
  ELSE IF nodes[1].type = "ELEMENT"
    THEN <<nodes[1]>> \o ElementsOf(nodes[1].children) \o ElementsOf(Tail(nodes))
  ELSE ElementsOf(Tail(nodes))

ElementList == IF Template.hasTemplate /\ Ast.ok THEN ElementsOf(Ast.children) ELSE <<>>
Elements == {ElementList[i] : i \in 1..Len(ElementList)}

\* The text of a prop in the document
OriginalText(p) == Slice(Template.content, p.start, p.end)

\* Where the open tag of an element ends
OpenTagEnd(e) == IF e.children = <<>> THEN e.end ELSE e.children[1].start

\* The computed edits that start inside the open tag of an element
EditsIn(e) ==
  {k \in 1..Len(edits) :
     Offset + e.start <= edits[k].start /\ edits[k].start < Offset + OpenTagEnd(e)}

\* The position in a list of the prop that came from position i of props
PositionOf(list, props, i) == CHOOSE k \in 1..Len(list) : list[k].start = props[i].start

\* The ordering passes left every prop where it was
Unmoved(e) ==
  LET list == Sorted(e.props, Opts)
  IN \A i \in 1..Len(e.props) : list[i].start = e.props[i].start

\* The first pass rewrote no prop
Unrewritten(e) ==
  LET list == Transformed(e.props, Opts)
  IN \A i \in 1..Len(e.props) : list[i].source = e.props[i].source

\* The text of the prop from position i of an element after all passes
TextAfterPasses(e, i) ==
  LET list == Sorted(e.props, Opts)
  IN list[PositionOf(list, e.props, i)].source

\* The positions of the class attributes that carry a value
ClassAttributes(e) ==
  {i \in 1..Len(e.props) :
     isAttributeNode(e.props[i]) /\ e.props[i].name = nClass /\ e.props[i].hasValue}

\* The tokens of the class value an element ends up with: those of the
\* rebuilt text class=Q...Q, or of the original value when it was kept
OutputClassTokens(e, i) ==
  LET text == TextAfterPasses(e, i)
  IN IF text = e.props[i].source THEN SplitClasses(e.props[i].content)
     ELSE SplitClasses(Slice(text, 7, Len(text) - 1))

\* The tokens without those that repeat an earlier one
RECURSIVE KeepFirst(_, _)
KeepFirst(tokens, k) ==
  IF k > Len(tokens) THEN <<>>
  ELSE (IF \E j \in 1..(k - 1) : tokens[j] = tokens[k] THEN <<>> ELSE <<tokens[k]>>)
         \o KeepFirst(tokens, k + 1)

SameBag(s, t) ==
  /\ Len(s) = Len(t)
  /\ \A i \in 1..Len(s) :
       Cardinality({j \in 1..Len(s) : s[j] = s[i]})
         = Cardinality({j \in 1..Len(t) : t[j] = s[i]})

Ascending(s) == \A i, j \in 1..Len(s) : i < j => ~StrLess(s[j], s[i])

----------------------------------------------------------------------------
(* C2. No-op rule: an element whose props the first pass does not rewrite  *)
(* and the enabled ordering passes do not move gets no replacement,        *)
(* whatever the layout option and the whitespace between its props; an     *)
(* element without props gets none either.                                 *)
C2_NoOpRule ==
  pc = "computed" =>
    \A e \in Elements :
      (e.props = <<>> \/ (Unrewritten(e) /\ Unmoved(e))) => EditsIn(e) = {}

\* An element of two or more props, separated by more than one space, that
\* an enabled ordering pass looked at and left alone
C2_Witness ==
  /\ pc = "computed"
  /\ edits = <<>>
  /\ Opts.orderDirectives /\ Opts.orderAttributes /\ Opts.attributeLayout = "inline"
  /\ \E e \in Elements :
       /\ Len(e.props) >= 2
       /\ Unrewritten(e) /\ Unmoved(e)
       /\ e.props[2].start - e.props[1].end > 1

(* C3. Span exactness: every replacement covers exactly the text from the  *)
(* start of the first original prop to the end of the last original prop   *)
(* of its element, shifted by the template offset, and is not empty.       *)
C3_SpanExact ==
  pc = "computed" =>
    /\ \A k \in 1..Len(edits) : \E e \in Elements : k \in EditsIn(e)
    /\ \A e \in Elements : \A k \in EditsIn(e) :
         /\ e.props # <<>>
         /\ edits[k].start = Offset + e.props[1].start
         /\ edits[k].end = Offset + e.props[Len(e.props)].end
         /\ edits[k].start < edits[k].end

\* A replacement for an element whose first and last props were both moved
C3_Witness ==
  /\ pc = "computed"
  /\ \E e \in Elements :
       /\ EditsIn(e) # {}
       /\ Len(e.props) >= 3
       /\ Sorted(e.props, Opts)[1].start # e.props[1].start
       /\ Sorted(e.props, Opts)[Len(e.props)].start # e.props[Len(e.props)].start

\* The rank the documentation gives a directive name: its index in the
\* priority list, and a rank after all of them when it is not listed
PriorityRank(name, directiveOrder) ==
  IF \E i \in 1..Len(directiveOrder) : directiveOrder[i] = name
    THEN CHOOSE i \in 1..Len(directiveOrder) :
           directiveOrder[i] = name /\ \A j \in 1..(i - 1) : directiveOrder[j] # name
    ELSE Len(directiveOrder) + 1

InPriorityOrder(a, b, directiveOrder) ==
  \/ PriorityRank(a.name, directiveOrder) < PriorityRank(b.name, directiveOrder)
  \/ /\ PriorityRank(a.name, directiveOrder) = PriorityRank(b.name, directiveOrder)
     /\ ~StrLess(b.name, a.name)

(* C7. Directive priority order: with orderDirectives on, the directives   *)
(* read in slot order after the second pass are ordered by (rank, name),   *)
(* rank being the index of the name in directivePriority; a directive      *)
(* whose name is not listed comes after every listed one.                  *)
C7_DirectivePriorityOrder ==
  (pc = "computed" /\ Opts.orderDirectives) =>
    \A e \in Elements :
      LET list == AfterPass2(e.props, Opts)
      IN \A i, j \in 1..Len(list) :
           (i < j /\ isDirectiveNode(list[i]) /\ isDirectiveNode(list[j]))
             => InPriorityOrder(list[i], list[j], Opts.directiveOrder)

SameSortKey(p, q) ==
  /\ p.type = q.type
  /\ p.name = q.name
  /\ isAttributeNode(p) => p.hasValue = q.hasValue

(* C8. Stability: two directives of the same name, and two attributes of   *)
(* the same name and the same valued/boolean status, come out in the       *)
(* relative order they had in the original prop list.                      *)
C8_Stability ==
  pc = "computed" =>
    \A e \in Elements :
      LET list == Sorted(e.props, Opts)
          texts == [k \in 1..Len(list) |-> list[k].source]
      IN /\ \A i, j \in 1..Len(e.props) :
              (i < j /\ SameSortKey(e.props[i], e.props[j]))
                => PositionOf(list, e.props, i) < PositionOf(list, e.props, j)
         /\ \A k \in EditsIn(e) : edits[k].value = Join(texts, Separator(e, Opts))

\* Two event bindings with different arguments in a block that was reordered
C8_Witness ==
  /\ pc = "computed"
  /\ \E e \in Elements :
       /\ EditsIn(e) # {}
       /\ ~Unmoved(e)
       /\ \E i, j \in 1..Len(e.props) :
            /\ i < j
            /\ isDirectiveNode(e.props[i])
            /\ SameSortKey(e.props[i], e.props[j])
            /\ e.props[i].arg # e.props[j].arg

(* C9. Attribute order: with orderAttributes on, among the plain           *)
(* attributes read in slot order after the third pass every attribute      *)
(* with a value (an empty one included) precedes every attribute without,  *)
(* and within each group the names ascend in code unit order.              *)
C9_AttributeOrder ==
  (pc = "computed" /\ Opts.orderAttributes) =>
    \A e \in Elements :
      LET list == Sorted(e.props, Opts)
      IN \A i, j \in 1..Len(list) :
           (i < j /\ isAttributeNode(list[i]) /\ isAttributeNode(list[j])) =>
             /\ list[i].hasValue \/ ~list[j].hasValue
             /\ (list[i].hasValue = list[j].hasValue) => ~StrLess(list[j].name, list[i].name)

\* An attribute with an empty value that stood after a valueless attribute
\* and was moved before it
C9_Witness ==
  /\ pc = "computed"
  /\ Opts.orderAttributes
  /\ \E e \in Elements :
       /\ EditsIn(e) # {}
       /\ \E i, j \in 1..Len(e.props) :
            /\ i < j
            /\ isAttributeNode(e.props[i]) /\ ~e.props[i].hasValue
            /\ isAttributeNode(e.props[j]) /\ e.props[j].hasValue
            /\ e.props[j].content = <<>>
            /\ PositionOf(Sorted(e.props, Opts), e.props, j)
                  < PositionOf(Sorted(e.props, Opts), e.props, i)

(* C5. Class token sequence: under each combination of sortClasses and     *)
(* removeDuplicates the tokens of the class value an element ends up with  *)
(* are the whitespace-split tokens of the original value, without the      *)
(* repeats iff removeDuplicates, in ascending code unit order iff          *)
(* sortClasses and in their original order otherwise.                      *)
C5_ClassTokenSequence ==
  pc = "computed" =>
    \A e \in Elements : \A i \in ClassAttributes(e) :
      LET original == SplitClasses(e.props[i].content)
          kept == IF Opts.removeDuplicates THEN KeepFirst(original, 1) ELSE original
          out == OutputClassTokens(e, i)
      IN IF Opts.sortClasses THEN SameBag(out, kept) /\ Ascending(out)
         ELSE out = kept

\* What a bind, on or slot directive starts with in each style
StylePrefix(name, style) ==
  IF style = "short"
    THEN CASE name = nBind -> <<":">>
           [] name = nOn -> <<"@">>
           [] name = nSlot -> <<"#">>
    ELSE <<"v", "-">> \o name \o <<":">>

\* The modifiers of a directive, each after a dot
RECURSIVE ModifierSuffix(_)
ModifierSuffix(mods) ==
  IF mods = <<>> THEN <<>> ELSE <<".">> \o mods[1] \o ModifierSuffix(Tail(mods))

\* The bind, on and slot directives that have an argument
StyledDirectives(e) ==
  {i \in 1..Len(e.props) :
     /\ isDirectiveNode(e.props[i])
     /\ e.props[i].name \in {nBind, nOn, nSlot}
     /\ e.props[i].hasArg}

(* C10. Style conversion: with normalizeDirectives on, a bind, on or slot  *)
(* directive with an argument comes out as the sigil (short style) or the  *)
(* long prefix (long style), then the argument, the modifiers each after   *)
(* a dot, and the value part, whichever spelling the source used.          *)
C10_StyleConversion ==
  (pc = "computed" /\ Opts.normalizeDirectives) =>
    \A e \in Elements : \A i \in StyledDirectives(e) :
      LET p == e.props[i]
      IN TextAfterPasses(e, i)
           = StylePrefix(p.name, Opts.directiveStyle) \o p.arg
               \o ModifierSuffix(p.modifiers)
               \o SameNameValuePart(p, Opts.sameNameMode)

\* A directive written with a sigil, with modifiers and a value, that was
\* rewritten to the long style
C10_Witness ==
  /\ pc = "computed"
  /\ Opts.normalizeDirectives /\ Opts.directiveStyle = "long"
  /\ edits # <<>>
  /\ \E e \in Elements : \E i \in StyledDirectives(e) :
       /\ e.props[i].source[1] = "@"
       /\ Len(e.props[i].modifiers) = 2
       /\ e.props[i].hasValue
       /\ edits[1].value = TextAfterPasses(e, i)

(* C1. Idempotence: once the computed replacements are applied, running   *)
(* vuenifyTransform again on the resulting text with the same              *)
(* configuration yields no replacement.                                    *)
C1_Idempotence ==
  (pc = "computed" /\ round >= 1) => edits = <<>>

Disjoint(a, b) == a.end <= b.start \/ b.end <= a.start

\* The replacements from the leftmost to the rightmost
InAscendingOrder(es) ==
  LET Rank(i) == Cardinality({j \in 1..Len(es) : es[j].start < es[i].start})
  IN [r \in 1..Len(es) |-> es[CHOOSE i \in 1..Len(es) : Rank(i) = r - 1]]

\* The text with each replacement put at its offsets of the original text,
\* built from left to right from the replacements in ascending order
RECURSIVE Rebuild(_, _, _)
Rebuild(text, es, pos) ==
  IF es = <<>> THEN SliceFrom(text, pos)
  ELSE Slice(text, pos, es[1].start) \o es[1].value \o Rebuild(text, Tail(es), es[1].end)

(* C4. Non-overlap: the ranges of any two replacements of one              *)
(* vuenifyTransform call are disjoint, so applying them in descending      *)
(* start order gives the text that has each of them at its original        *)
(* offsets.                                                                *)
C4_NonOverlap ==
  pc = "computed" =>
    /\ \A i, j \in 1..Len(edits) : i # j => Disjoint(edits[i], edits[j])
    /\ applyEdits(source, edits) = Rebuild(source, InAscendingOrder(edits), 0)

\* Replacements for an element and for an element nested in it
C4_Witness ==
  /\ pc = "computed"
  /\ \E e \in Elements :
       /\ e.children # <<>>
       /\ EditsIn(e) # {}
       /\ EditsIn(e.children[1]) # {}

\* The normalizer of a prop is switched off
SwitchedOff(p) ==
  \/ isAttributeNode(p) /\ p.name = nClass /\ ~Opts.sortClasses /\ ~Opts.removeDuplicates
  \/ isDirectiveNode(p) /\ ~Opts.normalizeDirectives

(* C6. A prop whose normalizer is switched off (a class attribute with     *)
(* sortClasses and removeDuplicates both off, a directive with             *)
(* normalizeDirectives off) stands with its exact original text in every   *)
(* replacement emitted for its element.                                    *)
C6_SwitchedOffKeepsText ==
  pc = "computed" =>
    \A e \in Elements : \A k \in EditsIn(e) : \A i \in 1..Len(e.props) :
      SwitchedOff(e.props[i]) =>
        /\ TextAfterPasses(e, i) = OriginalText(e.props[i])
        /\ IndexOfSub(edits[k].value, OriginalText(e.props[i])) # -1

\* A block rebuilt because its props were reordered, with an unsorted class
\* and a long-form directive whose normalizers are both switched off
C6_Witness ==
  /\ pc = "computed"
  /\ ~Opts.normalizeDirectives /\ ~Opts.sortClasses /\ ~Opts.removeDuplicates
  /\ \E e \in Elements :
       /\ EditsIn(e) # {}
       /\ ~Unmoved(e)
       /\ \E i \in ClassAttributes(e) :
            SortClasses(SplitClasses(e.props[i].content)) # SplitClasses(e.props[i].content)
       /\ \E i \in StyledDirectives(e) :
            NewDirective(e.props[i], Opts.directiveStyle, Opts.sameNameMode)
              # e.props[i].source

DirectiveStyles == {"short", "long"}
SameNameModes == {"ignore", "removeValue", "addValue"}

\* The directives that are not bind, on or slot with an argument
PassedDirectives(e) ==
  {i \in 1..Len(e.props) : isDirectiveNode(e.props[i]) /\ i \notin StyledDirectives(e)}

(* C11. Passthrough: under every directiveStyle and every sameNameMode     *)
(* getDirectiveTransform returns no replacement for a directive whose      *)
(* name is not bind, on or slot, and for a bind, on or slot directive      *)
(* without an argument; its text stays as it is in the document.           *)
C11_Passthrough ==
  pc = "computed" =>
    \A e \in Elements : \A i \in PassedDirectives(e) :
      /\ \A style \in DirectiveStyles, mode \in SameNameModes :
           ~getDirectiveTransform(e.props[i], Offset, style, mode).changed
      /\ TextAfterPasses(e, i) = OriginalText(e.props[i])

\* A bind directive without an argument, with a modifier and a value,
\* formatted with normalization on in the long style under addValue
C11_Witness ==
  /\ pc = "computed"
  /\ Opts.normalizeDirectives /\ Opts.directiveStyle = "long"
  /\ Opts.sameNameMode = "addValue"
  /\ edits = <<>>
  /\ \E e \in Elements : \E i \in PassedDirectives(e) :
       /\ e.props[i].name = nBind
       /\ e.props[i].modifiers # <<>>
       /\ e.props[i].hasValue

\* The text of a directive in the document from its "=" on
ValueText(p) == TrimStart(SliceFrom(OriginalText(p), Len(p.rawName)))

\* The argument without the brackets of a dynamic argument, trimmed
BareArgument(arg) ==
  Trim(IF Len(arg) >= 2 /\ arg[1] = "[" /\ arg[Len(arg)] = "]"
         THEN Slice(arg, 1, Len(arg) - 1)
         ELSE arg)

\* A styled directive up to its value part
StyledHead(p) ==
  StylePrefix(p.name, Opts.directiveStyle) \o p.arg \o ModifierSuffix(p.modifiers)

(* C12. removeValue: with normalizeDirectives on and sameNameMode =        *)
(* removeValue a bind directive with an argument comes out without its     *)
(* value part exactly when its expression, trimmed, is the argument        *)
(* without dynamic-argument brackets, trimmed; otherwise, and for on and   *)
(* slot directives, the value part is kept as written.                     *)
C12_RemoveValue ==
  (pc = "computed" /\ Opts.normalizeDirectives /\ Opts.sameNameMode = "removeValue") =>
    \A e \in Elements : \A i \in StyledDirectives(e) :
      LET p == e.props[i]
          sameName == /\ p.name = nBind
                      /\ p.hasValue
                      /\ Trim(p.content) = BareArgument(p.arg)
      IN TextAfterPasses(e, i)
           = IF sameName THEN StyledHead(p) ELSE StyledHead(p) \o ValueText(p)

\* A bind directive with a dynamic argument and a padded expression of the
\* same name, whose value part was removed
C12_Witness ==
  /\ pc = "computed"
  /\ Opts.normalizeDirectives /\ Opts.sameNameMode = "removeValue"
  /\ \E e \in Elements : \E i \in StyledDirectives(e) :
       /\ e.props[i].name = nBind
       /\ e.props[i].arg[1] = "["
       /\ e.props[i].hasValue
       /\ e.props[i].content # Trim(e.props[i].content)
       /\ EditsIn(e) # {}
       /\ ~Includes(edits[1].value, "=")

\* The text of the document between the first and the second prop
FirstGap(e) == Slice(Template.content, e.props[1].end, e.props[2].start)

\* The texts of the props of an element after all passes, in slot order
TextsAfterPasses(e) ==
  LET list == Sorted(e.props, Opts)
  IN [k \in 1..Len(list) |-> list[k].source]

(* C13. Layout separator: a rebuilt block is the texts of its props joined *)
(* by one separator: the original text between the first and the second   *)
(* original prop when attributeLayout is preserve, the block has more      *)
(* than one prop and that text holds a newline, and one space otherwise,   *)
(* however the props were reordered.                                       *)
C13_LayoutSeparator ==
  pc = "computed" =>
    \A e \in Elements : \A k \in EditsIn(e) :
      LET multiline == /\ Opts.attributeLayout = "preserve"
                       /\ Len(e.props) > 1
                       /\ Includes(FirstGap(e), "\n")
      IN edits[k].value
           = Join(TextsAfterPasses(e), IF multiline THEN FirstGap(e) ELSE <<" ">>)

\* A block of three props on two lines, its first prop moved, rebuilt in
\* the preserve layout with the first gap before every prop
C13_Witness ==
  /\ pc = "computed"
  /\ Opts.attributeLayout = "preserve"
  /\ \E e \in Elements :
       /\ EditsIn(e) # {}
       /\ Len(e.props) = 3
       /\ Includes(FirstGap(e), "\n")
       /\ Slice(Template.content, e.props[2].end, e.props[3].start) # FirstGap(e)
       /\ Sorted(e.props, Opts)[1].start # e.props[1].start

\* The option overrides of the command Vuenify: Sort Classes
SortClassesCommand ==
  /\ ~Opts.normalizeDirectives
  /\ ~Opts.orderDirectives
  /\ ~Opts.orderAttributes

\* A replacement of an element keeps the text of the block before its first
\* class attribute and the text after its last one
OutsideClassesKept(e, k) ==
  LET n == Len(e.props)
      first == CHOOSE i \in ClassAttributes(e) : \A j \in ClassAttributes(e) : i <= j
      last == CHOOSE i \in ClassAttributes(e) : \A j \in ClassAttributes(e) : j <= i
      before == Slice(Template.content, e.props[1].start, e.props[first].start)
      after == Slice(Template.content, e.props[last].end, e.props[n].end)
      value == edits[k].value
  IN /\ Len(value) >= Len(before) + Len(after)
     /\ Slice(value, 0, Len(before)) = before
     /\ SliceFrom(value, Len(value) - Len(after)) = after

(* C14. The Sort Classes command only applies class processing: with       *)
(* normalizeDirectives, orderDirectives and orderAttributes overridden to  *)
(* false, a replacement is made only for an element with a class           *)
(* attribute and leaves every character outside the class attributes as   *)
(* it was, the whitespace between the props included.                      *)
C14_SortClassesOnly ==
  (pc = "computed" /\ SortClassesCommand) =>
    \A e \in Elements : \A k \in EditsIn(e) :
      /\ ClassAttributes(e) # {}
      /\ OutsideClassesKept(e, k)

\* The options of the command Vuenify: Normalize Directives over the
\* default settings
NormalizeDirectivesCommand ==
  Opts = [defaultOptions EXCEPT !.sortClasses = FALSE,
                                !.orderDirectives = FALSE,
                                !.orderAttributes = FALSE]

\* The options of the command Vuenify: Order Attributes & Directives over
\* the default settings
OrderAttributesAndDirectivesCommand ==
  Opts = [defaultOptions EXCEPT !.sortClasses = FALSE,
                                !.normalizeDirectives = FALSE]

(* C15. Under the default settings the Normalize Directives command and    *)
(* the Order Attributes & Directives command leave the token list of       *)
(* every class attribute as it was: no class token is removed or moved.    *)
C15_CommandsKeepClassTokens ==
  (pc = "computed" /\ (NormalizeDirectivesCommand \/ OrderAttributesAndDirectivesCommand)) =>
    \A e \in Elements : \A i \in ClassAttributes(e) :
      OutputClassTokens(e, i) = SplitClasses(e.props[i].content)

\* The source has no template block or a blank one
NoTemplate == ~Template.hasTemplate \/ Trim(Template.content) = <<>>

\* The parser raised on the content of the template
Raised == ~NoTemplate /\ ~Ast.ok

C17_SpliceBack ==
  pc = "computed" =>
    \A e \in Elements :
      LET first == Transformed(e.props, Opts)
          out == Sorted(e.props, Opts)
          positions == 1..Len(e.props)
      IN /\ Len(out) = Len(e.props)
         /\ \A i \in positions : isDirectiveNode(out[i]) <=> isDirectiveNode(e.props[i])
         /\ (Opts.orderDirectives /\ ~Opts.orderAttributes) =>
              \A i \in positions : isAttributeNode(e.props[i]) => out[i] = first[i]
         /\ (Opts.orderAttributes /\ ~Opts.orderDirectives) =>
              \A i \in positions : isDirectiveNode(e.props[i]) => out[i] = first[i]
         /\ SameBag(out, first)

\* A pass moved a prop of one kind across a prop of the other kind, which
\* stayed where it was
C17_Witness ==
  /\ pc = "computed"
  /\ Opts.orderDirectives # Opts.orderAttributes
  /\ \E e \in Elements :
       LET out == Sorted(e.props, Opts)
       IN /\ Len(e.props) = 3
          /\ e.props[2].type # e.props[1].type
          /\ e.props[3].type = e.props[1].type
          /\ out[1].start = e.props[3].start
          /\ out[2].start = e.props[2].start
          /\ out[3].start = e.props[1].start

\* s ends with t
EndsWith(s, t) == Len(s) >= Len(t) /\ SliceFrom(s, Len(s) - Len(t)) = t

(* C18. Value part and modifiers are kept verbatim: with normalization on  *)
(* and sameNameMode = ignore, the rebuilt text of a bind, on or slot       *)
(* directive with an argument and an expression ends with the original     *)
(* text from the "=" that introduces the value to the end of the           *)
(* directive, and before it with the argument and the modifiers of the     *)
(* directive, each after a dot, in their original order.                   *)
C18_ValuePartVerbatim ==
  (pc = "computed" /\ Opts.normalizeDirectives /\ Opts.sameNameMode = "ignore") =>
    \A e \in Elements : \A i \in StyledDirectives(e) :
      LET p == e.props[i]
          text == TextAfterPasses(e, i)
          value == ValueText(p)
      IN p.hasValue =>
           /\ value # <<>> /\ value[1] = "="
           /\ EndsWith(text, value)
           /\ EndsWith(Slice(text, 0, Len(text) - Len(value)),
                       p.arg \o ModifierSuffix(p.modifiers))

\* A directive with two modifiers and an "=" inside its expression was
\* rewritten from one style to the other
C18_Witness ==
  /\ pc = "computed"
  /\ Opts.normalizeDirectives /\ Opts.sameNameMode = "ignore"
  /\ \E e \in Elements : \E i \in StyledDirectives(e) :
       /\ e.props[i].hasValue
       /\ Includes(e.props[i].content, "=")
       /\ Len(e.props[i].modifiers) = 2
       /\ EditsIn(e) # {}

(* C19. addValue: with normalizeDirectives on and sameNameMode = addValue  *)
(* a bind directive with an argument and no expression comes out, in the   *)
(* configured style, with the value part ="argument" (the argument without *)
(* the brackets of a dynamic argument, trimmed); a bind directive with an  *)
(* expression keeps its value part as it was.                              *)
C19_AddValue ==
  (pc = "computed" /\ Opts.normalizeDirectives /\ Opts.sameNameMode = "addValue") =>
    \A e \in Elements : \A i \in StyledDirectives(e) :
      LET p == e.props[i]
          added == <<"=", "\"">> \o BareArgument(p.arg) \o <<"\"">>
      IN p.name = nBind =>
           TextAfterPasses(e, i)
             = StyledHead(p) \o (IF p.hasValue THEN ValueText(p) ELSE added)

\* A bind directive with a dynamic argument, modifiers and no expression
\* was given the argument as its value
C19_Witness ==
  /\ pc = "computed"
  /\ Opts.normalizeDirectives /\ Opts.sameNameMode = "addValue"
  /\ \E e \in Elements : \E i \in StyledDirectives(e) :
       /\ e.props[i].name = nBind
       /\ ~e.props[i].hasValue
       /\ e.props[i].arg[1] = "["
       /\ e.props[i].modifiers # <<>>
       /\ \E k \in EditsIn(e) : EndsWith(edits[k].value, <<"=", "\"", "a", "\"">>)

\* The whitespace that follows the first newline of a class value
FirstNewlineRun(value) ==
  LET at == IndexOf(value, "\n")
  IN Slice(value, at + 1, SkipSpaces(value, at + 1))

\* The first token, and every further token after a newline and the run
OnePerLine(tokens, run) ==
  IF tokens = <<>> THEN <<>>
  ELSE tokens[1]
         \o Join([k \in 1..(Len(tokens) - 1) |-> <<"\n">> \o run \o tokens[k + 1]], <<>>)

(* C20. Class layout: a rewritten class value is, when classLayout is      *)
(* preserve and the original value holds a newline, the first token and    *)
(* then every further token after a newline and the whitespace that        *)
(* follows the first newline of the original value (none when a token      *)
(* follows it directly); in every other case it is the tokens joined       *)
(* with single spaces.                                                     *)
C20_ClassLayout ==
  pc = "computed" =>
    \A e \in Elements : \A i \in ClassAttributes(e) :
      LET p == e.props[i]
          text == TextAfterPasses(e, i)
          tokens == ProcessedClasses(p, Opts)
      IN text # p.source =>
           Slice(text, 7, Len(text) - 1)
             = IF Opts.classLayout = "preserve" /\ Includes(p.content, "\n")
                 THEN OnePerLine(tokens, FirstNewlineRun(p.content))
                 ELSE Join(tokens, <<" ">>)

\* The character that opens the value in the text of an attribute
Delimiter(text) == text[SkipSpaces(text, IndexOf(text, "=") + 1) + 1]

(* C21. Quote preservation: a rebuilt class attribute opens and closes its *)
(* value with the quote character that delimits the value in the          *)
(* original attribute text, also when a double-quoted value holds an       *)
(* apostrophe.                                                             *)
C21_QuotePreserved ==
  pc = "computed" =>
    \A e \in Elements : \A i \in ClassAttributes(e) :
      LET original == OriginalText(e.props[i])
          text == TextAfterPasses(e, i)
      IN (text # original /\ IsQuote(Delimiter(original))) =>
           /\ Delimiter(text) = Delimiter(original)
           /\ text[Len(text)] = Delimiter(original)

(* C22. resolveOptions returns a configuration in which every one of the  *)
(* ten options is defined, whatever partial options object the caller      *)
(* passes, also one that names an option with the value undefined; an       *)
(* option the caller does not define has its default.                       *)
C22_OptionsDefined ==
  pc = "computed" =>
    /\ DOMAIN Opts = OptionNames
    /\ \A k \in StringOptions :
         /\ Opts[k] # undefined
         /\ (k \notin DOMAIN settings \/ settings[k] = undefined) =>
              Opts[k] = defaultOptions[k]
    /\ \A k \in OptionNames \ StringOptions :
         k \notin DOMAIN settings => Opts[k] = defaultOptions[k]

\* The text of the document that a replacement covers
Replaced(k) == Slice(source, edits[k].start, edits[k].end)

(* C23. No gratuitous edit: the value of every emitted replacement differs *)
(* from the text of the document in the range it replaces, for every      *)
(* prop list and configuration.                                            *)
C23_NoGratuitousEdit ==
  pc = "computed" => \A k \in 1..Len(edits) : edits[k].value # Replaced(k)

\* A replacement that only exchanges props: it is as long as the text it
\* replaces, starts with the text of the last prop and ends with the text
\* of the first
C23_Witness ==
  /\ pc = "computed"
  /\ \E e \in Elements : \E k \in EditsIn(e) :
       LET n == Len(e.props)
       IN /\ n >= 2
          /\ Unrewritten(e)
          /\ Len(edits[k].value) = Len(Replaced(k))
          /\ Sorted(e.props, Opts)[1].start = e.props[n].start
          /\ Sorted(e.props, Opts)[n].start = e.props[1].start

\* The elements of a sequence
Range(seq) == {seq[k] : k \in 1..Len(seq)}

(* C24. Class tokens are never invented: in both class layouts every token *)
(* of a rebuilt class value is a token of the original value, and a class  *)
(* value made only of whitespace, with or without newlines, is rebuilt as  *)
(* an empty value.                                                         *)
C24_NoInventedToken ==
  pc = "computed" =>
    \A e \in Elements : \A i \in ClassAttributes(e) :
      LET p == e.props[i]
          text == TextAfterPasses(e, i)
      IN text # p.source =>
           /\ Range(OutputClassTokens(e, i)) \subseteq Range(SplitClasses(p.content))
           /\ Trim(p.content) = <<>> => Slice(text, 7, Len(text) - 1) = <<>>

====
